---------------------------- MODULE Spec2Model ----------------------------
(***************************************************************************)
(* EduDAQ (src/EduDAQ.ino, the first sketch of the file, lines 1-616):     *)
(* the interrupt driven sampler, the circular buffer, the trigger engine   *)
(* and the main loop with its command processing.                          *)
(*                                                                         *)
(* A command line is modelled after tokenisation: a sequence of commands,  *)
(* each [c, pre, mode, post] with c the prefix character, pre the numbers  *)
(* that precede the mode character, mode the mode/resolution character     *)
(* ("" when absent) and post the numbers that follow it.                   *)
(*                                                                         *)
(* Ghost state (not in the program, used to state properties): stamp,      *)
(* sampNo, cycNo, tick, trigStamp, dropped, afterReset, nCaptures,         *)
(* serialOut, nLines.                                                      *)
(***************************************************************************)
EXTENDS Integers, Sequences, FiniteSets, TLC

\* ---------------------------------------------------------------- constants
maxBufSize == 1200
maxAcqDelay == 2000
maxSampPeriod == 900000
maxChannels == 6
maxThresh == 1023
\* trigIgnoreFirstNSamples as set by resetBuf() and by a resolution change
ignoreAfterReset == 1
ignoreAfterResUpdate == 1

\* ------------------------------------------------------------------- bounds
\* ADC interrupts modelled between two resumptions of sampling by the main loop
MaxTicks == 6
\* command lines received in one run
MaxLines == 2
\* the count of captures read out saturates here
MaxCaptures == 2
\* slots of the buffer on which toBuf and fromBuf are exercised
BufSlots == 8

VARIABLES
  cfg,            \* the configuration struct
  bufSize,
  sampBuf,        \* high 8 bits of the slots 0..bufSize-1 (the slots above stay 0)
  sampBufL,       \* packed low 2 bits
  acqDelayCnt,
  skipCnt,
  trigIgnoreFirstNSamples,
  curPivot,
  curChannel,
  trigPivot,
  startPivot,
  adcCur,
  trigger,
  acqStarted,
  acqComplete,
  sampAvail,
  ADIE,           \* ADC interrupt enable bit of ADCSRA
  INT0,           \* external interrupt 0 enable bit of EIMSK
  pc,             \* position of the main program in loop()
  stamp,          \* ghost: per slot, -1 cleared, 0 stored before sampling was last resumed,
                  \*        k > 0 the k-th sample stored since
  sampNo,         \* ghost: samples stored since sampling was last resumed
  cycNo,          \* ghost: channel-cycles completed since sampling was last resumed
  tick,           \* ghost: ADC interrupts since sampling was last resumed
  trigStamp,      \* ghost: sampNo when the trigger fired, and whether a sample fired it
  dropped,        \* ghost: a trigger event arrived while this trigger was outstanding
  afterReset,     \* ghost: sampling was last resumed by a buffer reset or resolution change
  nCaptures,      \* ghost: captures read out so far (saturating)
  serialOut,      \* ghost: what the last step of the main program printed
  nLines          \* ghost: command lines received so far

progVars == <<cfg, bufSize, sampBuf, sampBufL, acqDelayCnt, skipCnt,
              trigIgnoreFirstNSamples, curPivot, curChannel, trigPivot, startPivot,
              adcCur, trigger, acqStarted, acqComplete, sampAvail, ADIE, INT0, pc>>

ghostVars == <<stamp, sampNo, cycNo, tick, trigStamp, dropped, afterReset, nCaptures,
               serialOut, nLines>>

vars == <<progVars, ghostVars>>

\* ------------------------------------------------------------------ helpers
constrainFromBelow(amt, low, high) == IF amt < low THEN low ELSE amt

constrain(amt, low, high) ==
  IF amt < low THEN low ELSE IF amt > high THEN high ELSE amt

\* a + b in 32-bit two's complement (long), for b >= 0
LONG_MAX == 2147483647
add32(a, b) ==
  IF a > LONG_MAX - b THEN ((a - LONG_MAX) - 1) + ((b - LONG_MAX) - 1) ELSE a + b

Pow4(k) == IF k = 0 THEN 1 ELSE IF k = 1 THEN 4 ELSE IF k = 2 THEN 16 ELSE 64

\* the structure initialiser of cfg
cfgDefault ==
  [nChannels |-> 1, sampPeriod |-> 100, adcRes |-> "L", trigChannel |-> 0,
   trigMode |-> "e", trigThresh |-> 500, preTrigSamp |-> 5, acqDelay |-> 0,
   nSamples |-> 10]

Cmd(c, pre, mode, post) == [c |-> c, pre |-> pre, mode |-> mode, post |-> post]

TrigModes == {"x", "\\", "/", "e", "l"}

\* ------------------------------------------------------------ buffer access
toBufOfWholeByte(hi, lo, sample, i) ==
  <<[hi EXCEPT ![i] = (sample \div 4) % 256],
    [lo EXCEPT ![i \div 4] = (sample % 4) * Pow4(i % 4)]>>

toBufOfNoClear(hi, lo, sample, i) ==
  LET li == i \div 4
      k == i % 4
  IN  <<[hi EXCEPT ![i] = (sample \div 4) % 256],
        [lo EXCEPT ![li] = (lo[li] + (sample % 4) * Pow4(k)) % 256]>>

toBufOfWideMask(hi, lo, sample, i) ==
  LET li == i \div 4
      k == i % 4
      old == (lo[li] \div Pow4(k)) % 16
      cleared == lo[li] - old * Pow4(k)
  IN  <<[hi EXCEPT ![i] = (sample \div 4) % 256],
        [lo EXCEPT ![li] = cleared + (sample % 4) * Pow4(k)]>>

\* toBuf: the pair <<sampBuf, sampBufL>> after packing sample into slot i
toBufOf(hi, lo, sample, i) ==
  LET li == i \div 4
      k == i % 4
      old == (lo[li] \div Pow4(k)) % 4
      cleared == lo[li] - old * Pow4(k)
  IN  <<[hi EXCEPT ![i] = (sample \div 4) % 256],
        [lo EXCEPT ![li] = cleared + (sample % 4) * Pow4(k)]>>

\* fromBuf: the 10-bit value unpacked from slot i
fromBufOf(hi, lo, i) ==
  hi[i] * 4 + ((lo[i \div 4] \div Pow4(i % 4)) % 4)

fromBuf(i) == fromBufOf(sampBuf, sampBufL, i)

\* clearBuf, restricted to the slots the configuration uses
clearHi(n) == [i \in 0..(n - 1) |-> 0]
clearLo(n) == [i \in 0..((n - 1) \div 4) |-> 0]


\* no trigger since the resume: no is the number of samples stored since the
\* resume when the trigger fired, cyc the number of complete channel-cycles
NoTrig == [no |-> 0, cyc |-> 0, bySample |-> FALSE]

\* nothing printed
NoOutput == [settings |-> FALSE, live |-> <<>>, rows |-> <<>>, trig |-> NoTrig]

\* ------------------------------------------------------------- processInput
\* the locals of processInput before the parsing loop
ParseStart(c) ==
  [cfg |-> c, nSamples |-> c.nSamples, preTrigSamp |-> c.preTrigSamp,
   sampPeriod |-> c.sampPeriod, reqResetBuf |-> FALSE, reqResUpdate |-> FALSE,
   reqSettingsPrint |-> FALSE]

\* prefix 't': [trigChannel] trigMode trigThresh preTrigSamp acqDelay
ParseT(a, cmd) ==
  LET chanTaken == Len(cmd.pre) >= 1 /\ cmd.pre[1] >= 0 /\ cmd.pre[1] < maxChannels
      rem == IF chanTaken THEN Tail(cmd.pre) ELSE cmd.pre
      c1 == IF chanTaken THEN [a.cfg EXCEPT !.trigChannel = cmd.pre[1]] ELSE a.cfg
      modeSeen == rem = <<>> /\ cmd.mode \in TrigModes
      c2 == IF modeSeen THEN [c1 EXCEPT !.trigMode = cmd.mode] ELSE c1
      nums == IF rem = <<>> THEN cmd.post ELSE rem
      c3 == IF Len(nums) >= 1
              THEN [c2 EXCEPT !.trigThresh = constrain(nums[1], 0, maxThresh)] ELSE c2
      c4 == IF Len(nums) >= 3
              THEN [c3 EXCEPT !.acqDelay = constrain(nums[3], 0, maxAcqDelay)] ELSE c3
  IN  [a EXCEPT !.cfg = c4,
                !.preTrigSamp = IF Len(nums) >= 2 THEN nums[2] ELSE a.preTrigSamp]

\* prefix 'r': adcRes
ParseR(a, cmd) ==
  IF cmd.mode \in {"H", "L"} /\ a.cfg.adcRes # cmd.mode
    THEN [a EXCEPT !.cfg.adcRes = cmd.mode, !.reqResUpdate = TRUE]
    ELSE a

ParseNKeepsBuffer(a, val) ==
  [a EXCEPT !.cfg.nChannels = constrain(val, 1, maxChannels)]

\* prefix 'n': nChannels
ParseN(a, val) ==
  LET v == constrain(val, 1, maxChannels)
  IN  [a EXCEPT !.reqResetBuf = a.reqResetBuf \/ v # a.cfg.nChannels,
                !.cfg.nChannels = v]

\* one pass of the parsing loop
ParseCmd(a, cmd) ==
  IF cmd.c = "?" THEN [a EXCEPT !.reqSettingsPrint = TRUE]
  ELSE IF cmd.c = "t" THEN ParseT(a, cmd)
  ELSE IF cmd.c = "r" THEN ParseR(a, cmd)
  ELSE IF Len(cmd.post) = 0 THEN a
  ELSE IF cmd.c = "s" THEN [a EXCEPT !.nSamples = cmd.post[1]]
  ELSE IF cmd.c = "n" THEN ParseN(a, cmd.post[1])
  ELSE IF cmd.c = "p" THEN [a EXCEPT !.sampPeriod = cmd.post[1]]
  ELSE a

RECURSIVE ParseLine(_, _)
ParseLine(a, line) ==
  IF line = <<>> THEN a ELSE ParseLine(ParseCmd(a, Head(line)), Tail(line))

ClampNSamplesWholeBuffer(n, nCh) == constrain(n, 2, maxBufSize)

\* the values that need a specific order due to interdependent constraints
ClampNSamples(n, nCh) == constrain(n, 2, maxBufSize \div nCh)

ApplyConstraintsStalePreTrig(a) ==
  LET nS == ClampNSamples(a.nSamples, a.cfg.nChannels)
      c1 == [a.cfg EXCEPT !.nSamples = nS]
      c2 == [c1 EXCEPT !.preTrigSamp = constrain(a.preTrigSamp, 0, a.cfg.nSamples - 1)]
      c3 == [c2 EXCEPT !.sampPeriod = constrain(a.sampPeriod, c2.nChannels, maxSampPeriod)]
  IN  [a EXCEPT !.cfg = c3, !.reqResetBuf = a.reqResetBuf \/ nS # a.cfg.nSamples]

ApplyConstraintsKeepsBuffer(a) ==
  LET nS == ClampNSamples(a.nSamples, a.cfg.nChannels)
      c1 == [a.cfg EXCEPT !.nSamples = nS]
      c2 == [c1 EXCEPT !.preTrigSamp = constrain(a.preTrigSamp, 0, nS - 1)]
      c3 == [c2 EXCEPT !.sampPeriod = constrain(a.sampPeriod, c2.nChannels, maxSampPeriod)]
  IN  [a EXCEPT !.cfg = c3]

ApplyConstraints(a) ==
  LET nS == ClampNSamples(a.nSamples, a.cfg.nChannels)
      c1 == [a.cfg EXCEPT !.nSamples = nS]
      c2 == [c1 EXCEPT !.preTrigSamp = constrain(a.preTrigSamp, 0, nS - 1)]
      c3 == [c2 EXCEPT !.sampPeriod = constrain(a.sampPeriod, c2.nChannels, maxSampPeriod)]
  IN  [a EXCEPT !.cfg = c3, !.reqResetBuf = a.reqResetBuf \/ nS # a.cfg.nSamples]

\* the parsed and constrained outcome of a command line on configuration c
Parsed(c, line) == ApplyConstraints(ParseLine(ParseStart(c), line))

resetAcqKeepsTrigger ==
  [trigger |-> TRUE, acqDelayCnt |-> 0, acqStarted |-> FALSE, acqComplete |-> FALSE]

resetAcqKeepsComplete ==
  [trigger |-> FALSE, acqDelayCnt |-> 0, acqStarted |-> FALSE, acqComplete |-> acqComplete]

\* resetTrig() and resetAcq(): trigger, acqDelayCnt, acqStarted, acqComplete
resetAcq == [trigger |-> FALSE, acqDelayCnt |-> 0, acqStarted |-> FALSE, acqComplete |-> FALSE]

\* samples stored before a suspension of sampling are no longer "since the resume"
staleStamps == [i \in DOMAIN stamp |-> IF stamp[i] > 0 THEN 0 ELSE stamp[i]]

\* enableISRs(), taken as one step
enableISRs ==
  /\ ADIE' = TRUE
  /\ INT0' = TRUE

\* ghost: a block of the main program that suspends sampling starts a new count
newEpoch ==
  /\ sampNo' = 0
  /\ cycNo' = 0
  /\ tick' = 0
  /\ trigStamp' = NoTrig
  /\ dropped' = FALSE

\* enableISRs() at the end of a block of the main program that had suspended sampling
resume == enableISRs /\ newEpoch

\* processInput() between its disableISRs() and its enableISRs()
processInputBody(line) ==
  LET a == Parsed(cfg, line)
      n == a.cfg.nChannels * a.cfg.nSamples
  IN  /\ cfg' = a.cfg
      /\ IF a.reqResetBuf
           THEN /\ sampBuf' = clearHi(n)
                /\ sampBufL' = clearLo(n)
                /\ stamp' = [i \in 0..(n - 1) |-> -1]
                /\ bufSize' = n
                /\ curPivot' = 0
           ELSE /\ stamp' = staleStamps
                /\ UNCHANGED <<sampBuf, sampBufL, bufSize, curPivot>>
      /\ trigIgnoreFirstNSamples' =
           IF a.reqResUpdate THEN ignoreAfterResUpdate
           ELSE IF a.reqResetBuf THEN ignoreAfterReset
           ELSE trigIgnoreFirstNSamples
      /\ afterReset' = (a.reqResetBuf \/ a.reqResUpdate)
      /\ serialOut' = [NoOutput EXCEPT !.settings = a.reqSettingsPrint]
      /\ trigger' = resetAcq.trigger
      /\ acqDelayCnt' = resetAcq.acqDelayCnt
      /\ acqStarted' = resetAcq.acqStarted
      /\ acqComplete' = resetAcq.acqComplete
      /\ newEpoch
      /\ UNCHANGED <<skipCnt, curChannel, trigPivot, startPivot, adcCur, sampAvail,
                     nCaptures>>

processInput(line) == processInputBody(line) /\ enableISRs

\* ------------------------------------------------------------ trigger engine
wrapUpNever(x, size) == x

wrapUpOnce(x, size) == IF x < 0 THEN x + size ELSE x

RECURSIVE wrapUp(_, _)
\* while (startPivot < 0) startPivot += bufSize
wrapUp(x, size) == IF x < 0 THEN wrapUp(x + size, size) ELSE x

setTrigAgain(t, piv, c, size) ==
  LET tp == (piv + c.acqDelay) % size
  IN  [trigger |-> TRUE,
       trigPivot |-> tp,
       startPivot |-> wrapUp(tp - c.trigChannel - c.preTrigSamp * c.nChannels, size)]

\* setTrig() with the write pivot at piv: t is [trigger, trigPivot, startPivot]
setTrig(t, piv, c, size) ==
  IF t.trigger
    THEN t
    ELSE LET tp == (piv + c.acqDelay) % size
         IN  [trigger |-> TRUE,
              trigPivot |-> tp,
              startPivot |-> wrapUp(tp - c.trigChannel - c.preTrigSamp * c.nChannels, size)]

edgeCrossedStrictly(mode, prev, cur, thresh) ==
  \/ (mode = "x" \/ mode = "\\") /\ prev > thresh /\ cur < thresh
  \/ (mode = "x" \/ mode = "/") /\ prev < thresh /\ cur > thresh

edgeCrossedAnyMode(mode, prev, cur, thresh) ==
  \/ prev > thresh /\ cur <= thresh
  \/ prev < thresh /\ cur >= thresh

\* the threshold test of the ADC interrupt
edgeCrossed(mode, prev, cur, thresh) ==
  \/ (mode = "x" \/ mode = "\\") /\ prev > thresh /\ cur <= thresh
  \/ (mode = "x" \/ mode = "/") /\ prev < thresh /\ cur >= thresh

\* the left-adjusted conversion result registers for a 10-bit reading v
ADCH(v) == v \div 4
ADCL(v) == (v % 4) * 64
adcRead(v) == (ADCL(v) \div 64) + ADCH(v) * 4

skipConversionWholePeriod(ch, skip, c) == ch = 0 /\ skip < c.sampPeriod

\* the throttle: the conversion is skipped
skipConversion(ch, skip, c) == ch = 0 /\ skip < c.sampPeriod - c.nChannels

leaveISRs == [ADIE |-> TRUE, INT0 |-> TRUE]

\* disableISRs() inside an interrupt handler: both statements run uninterrupted
disableISRs == [ADIE |-> FALSE, INT0 |-> FALSE]

\* ISR(ADC_vect) for a conversion result v. Conversions are started by Timer0, a
\* millisecond apart: between the two statements of enableISRs() at most the one
\* pending conversion is served
ADC_vect(v) ==
  /\ ADIE
  /\ pc \in {"pi4", "lv4", "rd4"} => tick = 0
  /\ tick < MaxTicks
  /\ tick' = tick + 1
  /\ IF skipConversion(curChannel, skipCnt, cfg)
       THEN /\ skipCnt' = skipCnt + 1
            /\ UNCHANGED <<cfg, bufSize, sampBuf, sampBufL, acqDelayCnt,
                           trigIgnoreFirstNSamples, curPivot, curChannel, trigPivot,
                           startPivot, adcCur, trigger, acqStarted, acqComplete,
                           sampAvail, ADIE, INT0, pc, stamp, sampNo, cycNo, trigStamp, dropped,
                           afterReset, nCaptures, serialOut, nLines>>
       ELSE LET adcPrev == adcCur[curChannel]
                cur == adcRead(v)
                packed == toBufOf(sampBuf, sampBufL, cur, curPivot)
                lastCh == curChannel = cfg.nChannels - 1
                ignoring == trigIgnoreFirstNSamples > 0
                onTrigCh == ~ignoring /\ curChannel = cfg.trigChannel
                crossed == edgeCrossed(cfg.trigMode, adcPrev, cur, cfg.trigThresh)
                t0 == [trigger |-> trigger, trigPivot |-> trigPivot, startPivot |-> startPivot]
                t1 == IF onTrigCh /\ ~trigger /\ crossed
                        THEN setTrig(t0, curPivot, cfg, bufSize) ELSE t0
                fire == t1.trigger /\ ~trigger
                counting == onTrigCh /\ t1.trigger
                started1 == IF counting /\ acqDelayCnt >= cfg.acqDelay
                              THEN TRUE ELSE acqStarted
                piv1 == (curPivot + 1) % bufSize
                done == t1.trigger /\ started1 /\ piv1 = t1.startPivot
            IN  /\ skipCnt' = IF curChannel = 0 THEN 0 ELSE skipCnt
                /\ adcCur' = [adcCur EXCEPT ![curChannel] = cur]
                /\ sampBuf' = packed[1]
                /\ sampBufL' = packed[2]
                /\ sampNo' = sampNo + 1
                /\ cycNo' = IF lastCh THEN cycNo + 1 ELSE cycNo
                /\ stamp' = [stamp EXCEPT ![curPivot] = sampNo + 1]
                /\ sampAvail' = IF lastCh THEN TRUE ELSE sampAvail
                /\ trigIgnoreFirstNSamples' =
                     IF ignoring /\ lastCh THEN trigIgnoreFirstNSamples - 1
                                           ELSE trigIgnoreFirstNSamples
                /\ trigger' = t1.trigger
                /\ trigPivot' = t1.trigPivot
                /\ startPivot' = t1.startPivot
                /\ trigStamp' = IF fire THEN [no |-> sampNo + 1, cyc |-> cycNo, bySample |-> TRUE]
                                        ELSE trigStamp
                /\ dropped' = IF onTrigCh /\ trigger /\ crossed THEN TRUE ELSE dropped
                /\ acqStarted' = started1
                /\ acqDelayCnt' = IF counting /\ acqDelayCnt < cfg.acqDelay
                                    THEN acqDelayCnt + 1 ELSE acqDelayCnt
                /\ curPivot' = piv1
                /\ curChannel' = (curChannel + 1) % cfg.nChannels
                /\ acqComplete' = IF done THEN TRUE ELSE acqComplete
                /\ ADIE' = IF done THEN disableISRs.ADIE ELSE ADIE
                /\ INT0' = IF done THEN disableISRs.INT0 ELSE INT0
                /\ UNCHANGED <<cfg, bufSize, pc, afterReset, nCaptures, serialOut, nLines>>

INT0_vectAnyMode ==
  /\ INT0
  /\ LET t0 == [trigger |-> trigger, trigPivot |-> trigPivot, startPivot |-> startPivot]
         t1 == setTrig(t0, curPivot, cfg, bufSize)
         fire == t1.trigger /\ ~trigger
     IN  /\ trigger' = t1.trigger
         /\ trigPivot' = t1.trigPivot
         /\ startPivot' = t1.startPivot
         /\ trigStamp' = IF fire THEN [no |-> sampNo, cyc |-> cycNo, bySample |-> FALSE] ELSE trigStamp
         /\ dropped' = IF cfg.trigMode = "e" /\ trigger THEN TRUE ELSE dropped
  /\ UNCHANGED <<cfg, bufSize, sampBuf, sampBufL, acqDelayCnt, skipCnt,
                 trigIgnoreFirstNSamples, curPivot, curChannel, adcCur, acqStarted,
                 acqComplete, sampAvail, ADIE, INT0, pc, stamp, sampNo, cycNo, tick,
                 afterReset, nCaptures, serialOut, nLines>>

\* ISR(INT0_vect): falling edge on pin 2
INT0_vect ==
  /\ INT0
  /\ LET t0 == [trigger |-> trigger, trigPivot |-> trigPivot, startPivot |-> startPivot]
         t1 == IF cfg.trigMode = "e" THEN setTrig(t0, curPivot, cfg, bufSize) ELSE t0
         fire == t1.trigger /\ ~trigger
     IN  /\ trigger' = t1.trigger
         /\ trigPivot' = t1.trigPivot
         /\ startPivot' = t1.startPivot
         /\ trigStamp' = IF fire THEN [no |-> sampNo, cyc |-> cycNo, bySample |-> FALSE] ELSE trigStamp
         /\ dropped' = IF cfg.trigMode = "e" /\ trigger THEN TRUE ELSE dropped
  /\ UNCHANGED <<cfg, bufSize, sampBuf, sampBufL, acqDelayCnt, skipCnt,
                 trigIgnoreFirstNSamples, curPivot, curChannel, adcCur, acqStarted,
                 acqComplete, sampAvail, ADIE, INT0, pc, stamp, sampNo, cycNo, tick,
                 afterReset, nCaptures, serialOut, nLines>>

\* ---------------------------------------------------------------- main loop
\* The main program is modelled in three steps. An interrupt between two
\* statements of loop() is modelled where it can make a difference:
\*   "top"  : serialEvent(), then if(inputComplete) processInput()
\*   "live" : the live-mode test; when it fails, the acqComplete block
\*   "print": the live-mode print, then the acqComplete block
\* (an interrupt between serialEvent() and processInput() changes nothing either
\* reads before disableISRs(); an interrupt between a failed live-mode test and
\* the acqComplete test acts as one before the former or after the latter).

\* serialEvent() receives a complete line; loop() then runs processInput()
LoopInput(line) ==
  /\ pc = "top"
  /\ pc' = "live"
  /\ nLines < MaxLines
  /\ nLines' = nLines + 1
  /\ processInput(line)

\* no complete line: loop() skips processInput()
LoopNoInput ==
  /\ pc = "top"
  /\ pc' = "live"
  /\ serialOut' = NoOutput
  /\ UNCHANGED <<cfg, bufSize, sampBuf, sampBufL, acqDelayCnt, skipCnt,
                 trigIgnoreFirstNSamples, curPivot, curChannel, trigPivot, startPivot,
                 adcCur, trigger, acqStarted, acqComplete, sampAvail, ADIE, INT0, stamp,
                 sampNo, cycNo, tick, trigStamp, dropped, afterReset, nCaptures, nLines>>

RECURSIVE readLoop(_, _, _, _, _)
\* the do-while of the readout: the values printed, each with its line, the time
\* stamp that starts its line, its slot and the slot's ghost stamp
readLoop(i, c, t, row, printed) ==
  LET item == [row |-> row, c |-> c, t |-> t, s |-> fromBuf(i), st |-> stamp[i], i |-> i]
      endRow == c = cfg.nChannels - 1
      t1 == IF endRow THEN add32(t, cfg.sampPeriod) ELSE t
      row1 == IF endRow THEN row + 1 ELSE row
      i1 == (i + 1) % bufSize
  IN  IF i1 = startPivot
        THEN Append(printed, item)
        ELSE readLoop(i1, (c + 1) % cfg.nChannels, t1, row1, Append(printed, item))

readoutFromTimeZero ==
  readLoop(startPivot, 0, 0, 0, <<>>)

readoutFromTrigPivot ==
  readLoop(trigPivot, 0, (cfg.acqDelay - cfg.preTrigSamp) * cfg.sampPeriod, 0, <<>>)

\* the readout of the window, from startPivot and time (-preTrigSamp + acqDelay) * sampPeriod
readout ==
  readLoop(startPivot, 0, (cfg.acqDelay - cfg.preTrigSamp) * cfg.sampPeriod, 0, <<>>)

\* the trigger blanking set after a readout
ignoreAfterReadout(c) == c.preTrigSamp + 1

\* the body of if (acqComplete) { ... } before its enableISRs(): print the
\* window, resetAcq(), set the trigger blanking; out is what this pass of loop()
\* has printed before
acqBody(out) ==
  /\ serialOut' = [out EXCEPT !.rows = readout, !.trig = trigStamp]
  /\ trigger' = resetAcq.trigger
  /\ acqDelayCnt' = resetAcq.acqDelayCnt
  /\ acqStarted' = resetAcq.acqStarted
  /\ acqComplete' = resetAcq.acqComplete
  /\ trigIgnoreFirstNSamples' = ignoreAfterReadout(cfg)
  /\ afterReset' = FALSE
  /\ nCaptures' = IF nCaptures < MaxCaptures THEN nCaptures + 1 ELSE nCaptures
  /\ stamp' = staleStamps
  /\ newEpoch

\* if (acqComplete) { ...; enableISRs(); }; suspended tells whether this step
\* has suspended sampling already
acqBlock(out, suspended) ==
  IF acqComplete
    THEN acqBody(out) /\ enableISRs
    ELSE /\ serialOut' = out
         /\ IF suspended
              THEN stamp' = staleStamps /\ resume
              ELSE UNCHANGED <<ADIE, INT0, stamp, sampNo, cycNo, tick, trigStamp, dropped>>
         /\ UNCHANGED <<acqDelayCnt, trigIgnoreFirstNSamples, trigger, acqStarted,
                        acqComplete, afterReset, nCaptures>>

\* if(cfg.trigMode == 'l' && sampAvail): the test, with the interrupts still enabled
LoopLive ==
  /\ pc = "live"
  /\ IF cfg.trigMode = "l" /\ sampAvail
       THEN /\ pc' = "print"
            /\ UNCHANGED <<acqDelayCnt, trigIgnoreFirstNSamples, trigger, acqStarted,
                           acqComplete, ADIE, INT0, stamp, sampNo, cycNo, tick, trigStamp,
                           dropped, afterReset, nCaptures, serialOut>>
       ELSE /\ pc' = "top"
            /\ acqBlock(NoOutput, FALSE)
  /\ UNCHANGED <<cfg, bufSize, sampBuf, sampBufL, skipCnt, curPivot, curChannel,
                 trigPivot, startPivot, adcCur, sampAvail, nLines>>

\* the live-mode print between disableISRs() and enableISRs()
LoopLivePrint ==
  /\ pc = "print"
  /\ pc' = "top"
  /\ sampAvail' = FALSE
  /\ acqBlock([NoOutput EXCEPT !.live = [c \in 1..cfg.nChannels |-> adcCur[c - 1]]], TRUE)
  /\ UNCHANGED <<cfg, bufSize, sampBuf, sampBufL, skipCnt, curPivot, curChannel,
                 trigPivot, startPivot, adcCur, nLines>>

\* ------------------------------------------- main loop, statement by statement
\* disableISRs() and enableISRs() are two statements each (ADCSRA, then EIMSK),
\* and an enabled interrupt is served between any two statements of the main
\* program. The steps below take loop() one statement at a time:
\*   "top"  if(inputComplete)            "pi1".."pi4"  processInput()
\*   "live" the live-mode test           "lv1".."lv4"  the live-mode print
\*   "acq"  if(acqComplete)              "rd2".."rd4"  the readout
\* where x1 follows ADCSRA &= ~ADIE, x2 follows EIMSK &= ~INT0 (the body runs
\* next), x3 follows the body and x4 follows ADCSRA |= ADIE.
dataVars == <<cfg, bufSize, sampBuf, sampBufL, acqDelayCnt, skipCnt,
              trigIgnoreFirstNSamples, curPivot, curChannel, trigPivot, startPivot,
              adcCur, trigger, acqStarted, acqComplete, sampAvail>>

countVars == <<stamp, sampNo, cycNo, tick, trigStamp, dropped, afterReset, nCaptures,
               nLines>>

\* if(inputComplete) with a complete line: processInput() begins, ADCSRA &= ~_BV(ADIE)
InputDisableADC ==
  /\ pc = "top"
  /\ nLines < MaxLines
  /\ pc' = "pi1"
  /\ ADIE' = FALSE
  /\ UNCHANGED <<dataVars, countVars, INT0, serialOut>>

\* EIMSK &= ~_BV(INT0), the second statement of disableISRs()
DisableINT0 ==
  /\ pc \in {"pi1", "lv1"}
  /\ pc' = IF pc = "pi1" THEN "pi2" ELSE "lv2"
  /\ INT0' = FALSE
  /\ UNCHANGED <<dataVars, countVars, ADIE, serialOut>>

\* processInput() from the parsing loop to inputComplete = false
InputBody(line) ==
  /\ pc = "pi2"
  /\ pc' = "pi3"
  /\ nLines' = nLines + 1
  /\ processInputBody(line)
  /\ UNCHANGED <<ADIE, INT0>>

EnableADCForgotten ==
  /\ pc \in {"pi3", "lv3", "rd3"}
  /\ pc' = IF pc = "pi3" THEN "pi4" ELSE IF pc = "lv3" THEN "lv4" ELSE "rd4"
  /\ UNCHANGED <<dataVars, countVars, ADIE, INT0, serialOut>>

\* ADCSRA |= _BV(ADIE), the first statement of enableISRs()
EnableADC ==
  /\ pc \in {"pi3", "lv3", "rd3"}
  /\ pc' = IF pc = "pi3" THEN "pi4" ELSE IF pc = "lv3" THEN "lv4" ELSE "rd4"
  /\ ADIE' = TRUE
  /\ UNCHANGED <<dataVars, countVars, INT0, serialOut>>

\* EIMSK |= _BV(INT0), the second statement of enableISRs()
EnableINT0 ==
  /\ pc \in {"pi4", "lv4", "rd4"}
  /\ pc' = IF pc = "pi4" THEN "live" ELSE IF pc = "lv4" THEN "acq" ELSE "top"
  /\ INT0' = TRUE
  /\ UNCHANGED <<dataVars, countVars, ADIE, serialOut>>

\* if(cfg.trigMode == 'l' && sampAvail), and ADCSRA &= ~_BV(ADIE) when it holds
LiveTest ==
  /\ pc = "live"
  /\ IF cfg.trigMode = "l" /\ sampAvail
       THEN pc' = "lv1" /\ ADIE' = FALSE
       ELSE pc' = "acq" /\ ADIE' = ADIE
  /\ UNCHANGED <<dataVars, countVars, INT0, serialOut>>

\* the live-mode print and sampAvail = false
LivePrintBody ==
  /\ pc = "lv2"
  /\ pc' = "lv3"
  /\ serialOut' = [NoOutput EXCEPT !.live = [c \in 1..cfg.nChannels |-> adcCur[c - 1]]]
  /\ sampAvail' = FALSE
  /\ stamp' = staleStamps
  /\ newEpoch
  /\ UNCHANGED <<cfg, bufSize, sampBuf, sampBufL, acqDelayCnt, skipCnt,
                 trigIgnoreFirstNSamples, curPivot, curChannel, trigPivot, startPivot,
                 adcCur, trigger, acqStarted, acqComplete, ADIE, INT0, afterReset,
                 nCaptures, nLines>>

\* if (acqComplete)
AcqTest ==
  /\ pc = "acq"
  /\ pc' = IF acqComplete THEN "rd2" ELSE "top"
  /\ UNCHANGED <<dataVars, countVars, ADIE, INT0, serialOut>>

\* the readout: print the window, resetAcq(), set the trigger blanking
ReadoutBody ==
  /\ pc = "rd2"
  /\ pc' = "rd3"
  /\ acqBody(NoOutput)
  /\ UNCHANGED <<cfg, bufSize, sampBuf, sampBufL, skipCnt, curPivot, curChannel,
                 trigPivot, startPivot, adcCur, sampAvail, ADIE, INT0, nLines>>

\* ------------------------------------------------------------ specification
\* the globals' initialisers and setup()
Init ==
  /\ cfg = cfgDefault
  /\ bufSize = cfgDefault.nChannels * cfgDefault.nSamples
  /\ sampBuf = clearHi(bufSize)
  /\ sampBufL = clearLo(bufSize)
  /\ acqDelayCnt = 0
  /\ skipCnt = 0
  /\ trigIgnoreFirstNSamples = 1
  /\ curPivot = 0
  /\ curChannel = 0
  /\ trigPivot = 0
  /\ startPivot = 0
  /\ adcCur = [c \in 0..(maxChannels - 1) |-> 0]
  /\ trigger = FALSE
  /\ acqStarted = FALSE
  /\ acqComplete = FALSE
  /\ sampAvail = FALSE
  /\ ADIE = TRUE
  /\ INT0 = TRUE
  /\ pc = "top"
  /\ stamp = [i \in 0..(bufSize - 1) |-> -1]
  /\ sampNo = 0
  /\ cycNo = 0
  /\ tick = 0
  /\ trigStamp = NoTrig
  /\ dropped = FALSE
  /\ afterReset = TRUE
  /\ nCaptures = 0
  /\ serialOut = NoOutput
  /\ nLines = 0

\* the steps of the program fed with command lines from lines and conversion
\* results from vals
NextOn(lines, vals) ==
  \/ \E v \in vals : ADC_vect(v)
  \/ INT0_vect
  \/ \E line \in lines : LoopInput(line)
  \/ LoopNoInput
  \/ LoopLive

\* ------------------------------------------- signal-triggered acquisition
Levels == {498, 500}

LinesEdge ==
  { <<Cmd("n", <<>>, "", <<2>>), Cmd("s", <<>>, "", <<2>>), Cmd("p", <<>>, "", <<2>>),
      Cmd("t", <<1>>, "/", <<500, 1, 0>>)>>,
    <<Cmd("s", <<>>, "", <<3>>), Cmd("p", <<>>, "", <<1>>), Cmd("t", <<>>, "x", <<499, 2, 0>>)>>,
    <<Cmd("?", <<>>, "", <<>>), Cmd("t", <<>>, "\\", <<498>>)>> }

Spec == Init /\ [][NextOn(LinesEdge, Levels)]_vars

\* the two lines of LinesEdge that set a capture up, for the rows of the readout
LinesRows ==
  { <<Cmd("n", <<>>, "", <<2>>), Cmd("s", <<>>, "", <<2>>), Cmd("p", <<>>, "", <<2>>),
      Cmd("t", <<1>>, "/", <<500, 1, 0>>)>>,
    <<Cmd("s", <<>>, "", <<3>>), Cmd("p", <<>>, "", <<1>>), Cmd("t", <<>>, "x", <<499, 2, 0>>)>> }

SpecRows == Init /\ [][NextOn(LinesRows, Levels)]_vars

\* the three edge modes on short buffers, for the threshold test
LinesModes ==
  { <<Cmd("n", <<>>, "", <<2>>), Cmd("s", <<>>, "", <<2>>), Cmd("p", <<>>, "", <<2>>),
      Cmd("t", <<1>>, "/", <<500, 1, 0>>)>>,
    <<Cmd("s", <<>>, "", <<2>>), Cmd("p", <<>>, "", <<1>>), Cmd("t", <<>>, "x", <<499, 0, 0>>)>>,
    <<Cmd("s", <<>>, "", <<2>>), Cmd("p", <<>>, "", <<1>>), Cmd("t", <<>>, "\\", <<498, 0, 0>>)>> }

SpecModes == Init /\ [][NextOn(LinesModes, Levels)]_vars

\* ------------------------------------------ externally triggered acquisition
OneLevel == {502}

LinesExt ==
  { <<Cmd("s", <<>>, "", <<3>>), Cmd("p", <<>>, "", <<1>>), Cmd("t", <<>>, "e", <<500, 1, 1>>)>>,
    <<Cmd("n", <<>>, "", <<2>>), Cmd("s", <<>>, "", <<2>>), Cmd("p", <<>>, "", <<2>>),
      Cmd("t", <<1>>, "e", <<500, 1, 0>>)>>,
    <<Cmd("?", <<>>, "", <<>>)>> }

SpecExt == Init /\ [][NextOn(LinesExt, OneLevel)]_vars

\* ------------------------------------------------ interrupt enable bits
LinesIrq ==
  { <<Cmd("n", <<>>, "", <<2>>), Cmd("s", <<>>, "", <<2>>), Cmd("p", <<>>, "", <<2>>),
      Cmd("t", <<1>>, "/", <<500, 1, 0>>)>>,
    <<Cmd("s", <<>>, "", <<2>>), Cmd("p", <<>>, "", <<1>>), Cmd("t", <<>>, "l", <<>>)>> }

NextIrq ==
  \/ \E v \in Levels : ADC_vect(v)
  \/ INT0_vect
  \/ LoopNoInput
  \/ InputDisableADC
  \/ DisableINT0
  \/ \E line \in LinesIrq : InputBody(line)
  \/ EnableADC
  \/ EnableINT0
  \/ LiveTest
  \/ LivePrintBody
  \/ AcqTest
  \/ ReadoutBody

SpecIrq == Init /\ [][NextIrq]_vars

\* -------------------------------------------------------------- live mode
LinesLive ==
  { <<Cmd("p", <<>>, "", <<1>>), Cmd("t", <<>>, "l", <<>>)>>,
    <<Cmd("n", <<>>, "", <<2>>), Cmd("p", <<>>, "", <<2>>), Cmd("t", <<>>, "l", <<>>)>>,
    <<Cmd("?", <<>>, "", <<>>)>> }

NextLive == NextOn(LinesLive, OneLevel) \/ LoopLivePrint

SpecLive == Init /\ [][NextLive]_vars

\* --------------------------------------------------- configuration requests
NArgs == {0, 6, 7}
SArgs == {-1, 201, 1201}

LinesCfg ==
  { <<Cmd("n", <<>>, "", <<n>>), Cmd("s", <<>>, "", <<k>>)>> : n \in NArgs, k \in SArgs }
  \cup { <<Cmd("n", <<>>, "", <<n>>)>> : n \in NArgs }
  \cup { <<Cmd("s", <<>>, "", <<k>>)>> : k \in SArgs }

SpecCfg == Init /\ [][NextOn(LinesCfg, OneLevel)]_vars

\* the requests of LinesCfg one command per line, and three lines of two
LinesCapacity ==
  { <<Cmd("n", <<>>, "", <<n>>)>> : n \in NArgs }
  \cup { <<Cmd("s", <<>>, "", <<k>>)>> : k \in SArgs }
  \cup { <<Cmd("n", <<>>, "", <<0>>), Cmd("s", <<>>, "", <<-1>>)>>,
         <<Cmd("n", <<>>, "", <<6>>), Cmd("s", <<>>, "", <<201>>)>>,
         <<Cmd("n", <<>>, "", <<7>>), Cmd("s", <<>>, "", <<1201>>)>> }

SpecCapacity == Init /\ [][NextOn(LinesCapacity, OneLevel)]_vars

\* ---------------------------------------------------- trigger settings
LinesTrig ==
  { <<Cmd("t", <<>>, "x", <<-1, -1, -1>>)>>,
    <<Cmd("t", <<>>, "x", <<1024, 10, 2001>>)>>,
    <<Cmd("s", <<>>, "", <<2>>)>>,
    <<Cmd("s", <<>>, "", <<300>>), Cmd("t", <<>>, "x", <<500, 250, 0>>)>>,
    <<Cmd("n", <<>>, "", <<6>>)>>,
    <<Cmd("t", <<1>>, "x", <<500, 0, 0>>)>> }

SpecTrig == Init /\ [][NextOn(LinesTrig, OneLevel)]_vars

\* ------------------------------------------------------ sampling period
PArgs == {0, 1, 3, 900001}

LinesPeriod ==
  { <<Cmd("p", <<>>, "", <<k>>)>> : k \in PArgs }
  \cup { <<Cmd("n", <<>>, "", <<2>>)>>,
         <<Cmd("n", <<>>, "", <<6>>)>>,
         <<Cmd("n", <<>>, "", <<2>>), Cmd("p", <<>>, "", <<1>>)>> }

SpecPeriod == Init /\ [][NextOn(LinesPeriod, OneLevel)]_vars

\* ------------------------------------------------------- sample packing
\* toBuf(adcCur[0], curPivot), the call ISR(ADC_vect) makes on channel 0, alone
toBuf ==
  LET packed == toBufOf(sampBuf, sampBufL, adcCur[0], curPivot)
  IN  /\ tick = 0
      /\ tick' = 1
      /\ sampBuf' = packed[1]
      /\ sampBufL' = packed[2]
      /\ UNCHANGED <<cfg, bufSize, acqDelayCnt, skipCnt, trigIgnoreFirstNSamples,
                     curPivot, curChannel, trigPivot, startPivot, adcCur, trigger,
                     acqStarted, acqComplete, sampAvail, ADIE, INT0, pc, stamp, sampNo,
                     cycNo, trigStamp, dropped, afterReset, nCaptures, serialOut, nLines>>

HiBytes == {0, 255}
LoBytes == {0, 156, 255}
BufVals == 0..1023

\* a buffer of BufSlots slots with earlier contents, a slot and a 10-bit value
InitBuf ==
  /\ cfg = [cfgDefault EXCEPT !.nSamples = BufSlots]
  /\ bufSize = BufSlots
  /\ sampBuf \in {[i \in 0..(BufSlots - 1) |-> h] : h \in HiBytes}
  /\ sampBufL \in [0..((BufSlots - 1) \div 4) -> LoBytes]
  /\ curPivot \in 0..(BufSlots - 1)
  /\ adcCur \in {[c \in 0..(maxChannels - 1) |-> IF c = 0 THEN v ELSE 0] : v \in BufVals}
  /\ acqDelayCnt = 0
  /\ skipCnt = 0
  /\ trigIgnoreFirstNSamples = 0
  /\ curChannel = 0
  /\ trigPivot = 0
  /\ startPivot = 0
  /\ trigger = FALSE
  /\ acqStarted = FALSE
  /\ acqComplete = FALSE
  /\ sampAvail = FALSE
  /\ ADIE = TRUE
  /\ INT0 = TRUE
  /\ pc = "top"
  /\ stamp = [i \in 0..(BufSlots - 1) |-> 0]
  /\ sampNo = 0
  /\ cycNo = 0
  /\ tick = 0
  /\ trigStamp = NoTrig
  /\ dropped = FALSE
  /\ afterReset = FALSE
  /\ nCaptures = 0
  /\ serialOut = NoOutput
  /\ nLines = 0

SpecBuf == InitBuf /\ [][toBuf]_vars

\* ------------------------------------------- readout of large configurations
\* the readout one pass of its do-while at a time; the values printed so far
\* are serialOut.rows, whose last item holds the loop variables i, c and t
readoutDoneAtLastSlot ==
  /\ serialOut.rows # <<>>
  /\ serialOut.rows[Len(serialOut.rows)].i = bufSize - 1

\* while (i != startPivot), after i = (i + 1) % bufSize
readoutDone ==
  /\ serialOut.rows # <<>>
  /\ (serialOut.rows[Len(serialOut.rows)].i + 1) % bufSize = startPivot

\* one pass of do { ... } while (i != startPivot)
ReadoutPass ==
  LET printed == serialOut.rows
      first == printed = <<>>
      last == printed[Len(printed)]
      endRow == last.c = cfg.nChannels - 1
      i == IF first THEN startPivot ELSE (last.i + 1) % bufSize
      c == IF first THEN 0 ELSE (last.c + 1) % cfg.nChannels
      t == IF first THEN (cfg.acqDelay - cfg.preTrigSamp) * cfg.sampPeriod
           ELSE IF endRow THEN add32(last.t, cfg.sampPeriod) ELSE last.t
      row == IF first THEN 0 ELSE IF endRow THEN last.row + 1 ELSE last.row
      item == [row |-> row, c |-> c, t |-> t, s |-> fromBuf(i), st |-> stamp[i], i |-> i]
  IN  /\ pc = "rd2"
      /\ ~readoutDone
      /\ serialOut' = [serialOut EXCEPT !.rows = Append(printed, item)]
      /\ UNCHANGED <<dataVars, countVars, ADIE, INT0, pc>>

\* the end of the readout: resetAcq() and the trigger blanking
ReadoutEnd ==
  /\ pc = "rd2"
  /\ readoutDone
  /\ pc' = "rd3"
  /\ serialOut' = [serialOut EXCEPT !.trig = trigStamp]
  /\ trigger' = resetAcq.trigger
  /\ acqDelayCnt' = resetAcq.acqDelayCnt
  /\ acqStarted' = resetAcq.acqStarted
  /\ acqComplete' = resetAcq.acqComplete
  /\ trigIgnoreFirstNSamples' = ignoreAfterReadout(cfg)
  /\ afterReset' = FALSE
  /\ nCaptures' = IF nCaptures < MaxCaptures THEN nCaptures + 1 ELSE nCaptures
  /\ stamp' = staleStamps
  /\ newEpoch
  /\ UNCHANGED <<cfg, bufSize, sampBuf, sampBufL, skipCnt, curPivot, curChannel,
                 trigPivot, startPivot, adcCur, sampAvail, ADIE, INT0, nLines>>

TimeSArgs == {2, 400, 1200}
TimePArgs == {1, 1000, 900000}
TimeDelays == {0, 2000}
TimePreArgs == {0, 1199}

LinesTime ==
  { <<Cmd("s", <<>>, "", <<k>>), Cmd("p", <<>>, "", <<p>>),
      Cmd("t", <<>>, "e", <<500, pre, d>>)>> :
      k \in TimeSArgs, p \in TimePArgs, pre \in TimePreArgs, d \in TimeDelays }

\* a capture is complete in a configuration that a command line of LinesTime
\* has set: the pivot has come round to startPivot, the ISR has disabled the
\* interrupts and loop() is about to find acqComplete
InitTime ==
  /\ cfg \in {Parsed(cfgDefault, line).cfg : line \in LinesTime}
  /\ bufSize = cfg.nChannels * cfg.nSamples
  /\ sampBuf = clearHi(bufSize)
  /\ sampBufL = clearLo(bufSize)
  /\ acqDelayCnt = cfg.acqDelay
  /\ skipCnt = 0
  /\ trigIgnoreFirstNSamples = 0
  /\ curPivot = 0
  /\ curChannel = 0
  /\ trigPivot = cfg.acqDelay % bufSize
  /\ startPivot = 0
  /\ adcCur = [c \in 0..(maxChannels - 1) |-> 0]
  /\ trigger = TRUE
  /\ acqStarted = TRUE
  /\ acqComplete = TRUE
  /\ sampAvail = TRUE
  /\ ADIE = disableISRs.ADIE
  /\ INT0 = disableISRs.INT0
  /\ pc = "acq"
  /\ stamp = [i \in 0..(bufSize - 1) |-> 0]
  /\ sampNo = 0
  /\ cycNo = 0
  /\ tick = 0
  /\ trigStamp = NoTrig
  /\ dropped = FALSE
  /\ afterReset = FALSE
  /\ nCaptures = 0
  /\ serialOut = NoOutput
  /\ nLines = 1

NextTime ==
  \/ LoopNoInput
  \/ LiveTest
  \/ AcqTest
  \/ ReadoutPass
  \/ ReadoutEnd
  \/ EnableADC
  \/ EnableINT0

SpecTime == InitTime /\ [][NextTime]_vars

\* ------------------------------------------------------------ index ranges
\* the smallest buffer with the highest trigger channel, the largest buffer with
\* the longest pre-trigger part and delay, and an edge-triggered capture
LinesIndex ==
  { <<Cmd("s", <<>>, "", <<2>>), Cmd("p", <<>>, "", <<1>>), Cmd("t", <<5>>, "e", <<500, 1, 0>>)>>,
    <<Cmd("n", <<>>, "", <<6>>), Cmd("s", <<>>, "", <<200>>), Cmd("p", <<>>, "", <<6>>),
      Cmd("t", <<5>>, "e", <<500, 199, 2000>>)>>,
    <<Cmd("n", <<>>, "", <<2>>), Cmd("s", <<>>, "", <<2>>), Cmd("p", <<>>, "", <<2>>),
      Cmd("t", <<1>>, "x", <<500, 1, 0>>)>> }

SpecIndex == Init /\ [][NextOn(LinesIndex, OneLevel)]_vars

\* ------------------------------------------------ conversions without end
\* The ADC converts for as long as its interrupt is enabled. The ghost counts
\* of conversions and samples start again when tick reaches MaxTicks, so that
\* ADC_vect stays enabled in a finite state space; no variable of the program
\* changes in that step.
countRestart ==
  /\ tick = MaxTicks
  /\ tick' = 0
  /\ sampNo' = 0
  /\ cycNo' = 0
  /\ stamp' = staleStamps
  /\ UNCHANGED <<cfg, bufSize, sampBuf, sampBufL, acqDelayCnt, skipCnt,
                 trigIgnoreFirstNSamples, curPivot, curChannel, trigPivot, startPivot,
                 adcCur, trigger, acqStarted, acqComplete, sampAvail, ADIE, INT0, pc,
                 trigStamp, dropped, afterReset, nCaptures, serialOut, nLines>>

LinesWait ==
  { <<Cmd("s", <<>>, "", <<2>>), Cmd("p", <<>>, "", <<1>>), Cmd("t", <<5>>, "e", <<500, 1, 0>>)>>,
    <<Cmd("n", <<>>, "", <<2>>), Cmd("s", <<>>, "", <<2>>), Cmd("p", <<>>, "", <<2>>),
      Cmd("t", <<1>>, "e", <<500, 1, 0>>)>> }

\* the conversions served once the first line has set the sampling period
ConversionsWait == \E v \in OneLevel : nLines >= 1 /\ ADC_vect(v)

NextWait ==
  \/ ConversionsWait
  \/ INT0_vect
  \/ \E line \in LinesWait : LoopInput(line)
  \/ LoopNoInput
  \/ LoopLive
  \/ countRestart

\* a conversion completes, and its interrupt is served, again and again while
\* the ADC interrupt is enabled
SpecWait ==
  /\ Init
  /\ [][NextWait]_vars
  /\ WF_vars(ConversionsWait)
  /\ WF_vars(countRestart)

\* ------------------------------------------- captures read out pass by pass
\* the statement-level loop with the readout taken one pass of its do-while at
\* a time; the captures are fired by a sample, by an external event with a
\* delay of one slot, and by an external event in a two-channel cycle
LinesRead ==
  { <<Cmd("n", <<>>, "", <<2>>), Cmd("s", <<>>, "", <<2>>), Cmd("p", <<>>, "", <<2>>),
      Cmd("t", <<1>>, "/", <<500, 1, 0>>)>>,
    <<Cmd("s", <<>>, "", <<3>>), Cmd("p", <<>>, "", <<1>>), Cmd("t", <<0>>, "e", <<500, 1, 1>>)>>,
    <<Cmd("n", <<>>, "", <<2>>), Cmd("s", <<>>, "", <<2>>), Cmd("p", <<>>, "", <<2>>),
      Cmd("t", <<0>>, "e", <<500, 0, 1>>)>> }

NextRead ==
  \/ \E v \in OneLevel : ADC_vect(v)
  \/ INT0_vect
  \/ LoopNoInput
  \/ InputDisableADC
  \/ DisableINT0
  \/ \E line \in LinesRead : InputBody(line)
  \/ EnableADC
  \/ EnableINT0
  \/ LiveTest
  \/ AcqTest
  \/ ReadoutPass
  \/ ReadoutEnd

SpecRead == Init /\ [][NextRead]_vars

\* ------------------------------------------------- live mode, two channels
LinesSnap ==
  { <<Cmd("n", <<>>, "", <<2>>), Cmd("p", <<>>, "", <<2>>), Cmd("t", <<>>, "l", <<>>)>>,
    <<Cmd("?", <<>>, "", <<>>)>>,
    <<Cmd("s", <<>>, "", <<2>>), Cmd("p", <<>>, "", <<1>>), Cmd("t", <<>>, "e", <<500, 1, 0>>)>> }

NextSnap ==
  \/ \E v \in OneLevel : ADC_vect(v)
  \/ INT0_vect
  \/ LoopNoInput
  \/ InputDisableADC
  \/ DisableINT0
  \/ \E line \in LinesSnap : InputBody(line)
  \/ EnableADC
  \/ EnableINT0
  \/ LiveTest
  \/ LivePrintBody
  \/ AcqTest
  \/ ReadoutBody

SpecSnap == Init /\ [][NextSnap]_vars

\* ------------------------------------------------------ size of the buffer
LinesSize ==
  { <<Cmd("s", <<>>, "", <<201>>)>>,
    <<Cmd("n", <<>>, "", <<6>>)>>,
    <<Cmd("n", <<>>, "", <<2>>), Cmd("s", <<>>, "", <<3>>), Cmd("n", <<>>, "", <<1>>),
      Cmd("s", <<>>, "", <<5>>)>> }

SpecSize == Init /\ [][NextOn(LinesSize, OneLevel)]_vars

\* ------------------------------------------- both trigger sources at work
LinesSrc ==
  { <<Cmd("s", <<>>, "", <<2>>), Cmd("p", <<>>, "", <<1>>), Cmd("t", <<>>, "e", <<500, 0, 0>>)>>,
    <<Cmd("s", <<>>, "", <<2>>), Cmd("p", <<>>, "", <<1>>), Cmd("t", <<>>, "x", <<500, 0, 0>>)>> }

SpecSrc == Init /\ [][NextOn(LinesSrc, Levels)]_vars

\* ------------------------------------------------------- delayed captures
\* A capture with a delay of two periods on two channels takes seven
\* conversions from the command to its completion. The ghost count of
\* conversions starts again once when MaxTicks samples have been stored, so
\* that up to 2 * MaxTicks conversions follow a resume; no variable of the
\* program changes.
moreTicks ==
  /\ tick = MaxTicks
  /\ sampNo = MaxTicks
  /\ tick' = 0
  /\ UNCHANGED <<cfg, bufSize, sampBuf, sampBufL, acqDelayCnt, skipCnt,
                 trigIgnoreFirstNSamples, curPivot, curChannel, trigPivot, startPivot,
                 adcCur, trigger, acqStarted, acqComplete, sampAvail, ADIE, INT0, pc,
                 stamp, sampNo, cycNo, trigStamp, dropped, afterReset, nCaptures,
                 serialOut, nLines>>

LinesDelay ==
  { <<Cmd("n", <<>>, "", <<2>>), Cmd("s", <<>>, "", <<2>>), Cmd("p", <<>>, "", <<2>>),
      Cmd("t", <<0>>, "/", <<500, 1, 2>>)>>,
    <<Cmd("?", <<>>, "", <<>>)>> }

NextDelay == NextOn(LinesDelay, Levels) \/ moreTicks

SpecDelay == Init /\ [][NextDelay]_vars

\* ------------------------------------------------- sequences of buffer calls
\* toBuf(v, i) and clearBuf() called in any order on a buffer of BufSlots slots
MaxStores == 2
PackVals == {0, 3, 513, 1022}

\* toBuf(v, i)
toBufAt(v, i) ==
  LET packed == toBufOf(sampBuf, sampBufL, v, i)
  IN  /\ tick < MaxStores
      /\ tick' = tick + 1
      /\ pc' = "toBuf"
      /\ sampBuf' = packed[1]
      /\ sampBufL' = packed[2]
      /\ curPivot' = i
      /\ adcCur' = [adcCur EXCEPT ![0] = v]
      /\ UNCHANGED <<cfg, bufSize, acqDelayCnt, skipCnt, trigIgnoreFirstNSamples,
                     curChannel, trigPivot, startPivot, trigger, acqStarted,
                     acqComplete, sampAvail, ADIE, INT0, stamp, sampNo, cycNo,
                     trigStamp, dropped, afterReset, nCaptures, serialOut, nLines>>

\* clearBuf()
clearBuf ==
  /\ tick < MaxStores
  /\ tick' = tick + 1
  /\ pc' = "clearBuf"
  /\ sampBuf' = clearHi(bufSize)
  /\ sampBufL' = clearLo(bufSize)
  /\ UNCHANGED <<cfg, bufSize, acqDelayCnt, skipCnt, trigIgnoreFirstNSamples, curPivot,
                 curChannel, trigPivot, startPivot, adcCur, trigger, acqStarted,
                 acqComplete, sampAvail, ADIE, INT0, stamp, sampNo, cycNo,
                 trigStamp, dropped, afterReset, nCaptures, serialOut, nLines>>

\* a buffer with earlier contents
InitPack == InitBuf /\ curPivot = 0 /\ adcCur[0] = 0

NextPack ==
  \/ \E v \in PackVals, i \in 0..(BufSlots - 1) : toBufAt(v, i)
  \/ clearBuf

SpecPack == InitPack /\ [][NextPack]_vars

\* ---------------------------------------------------- re-arming after a readout
\* Command lines arrive only while no sample has been stored since sampling was
\* last resumed (at power-up, right after a readout or right after another
\* line), so that a ghost stamp 0 in a later capture marks a sample stored
\* before the readout of the one before.
LinesRearm ==
  { <<Cmd("s", <<>>, "", <<3>>), Cmd("p", <<>>, "", <<1>>), Cmd("t", <<>>, "x", <<499, 0, 0>>)>>,
    <<Cmd("t", <<>>, "x", <<499, 2, 0>>)>>,
    <<Cmd("?", <<>>, "", <<>>)>> }

NextRearm ==
  \/ \E v \in Levels : ADC_vect(v)
  \/ INT0_vect
  \/ \E line \in LinesRearm : sampNo = 0 /\ LoopInput(line)
  \/ LoopNoInput
  \/ LoopLive

SpecRearm == Init /\ [][NextRearm]_vars

\* ----------------------------------------------------------- buffer resets
LinesReset ==
  { <<Cmd("p", <<>>, "", <<1>>)>>,
    <<Cmd("n", <<>>, "", <<2>>), Cmd("n", <<>>, "", <<1>>)>>,
    <<Cmd("n", <<>>, "", <<2>>)>>,
    <<Cmd("s", <<>>, "", <<3>>)>>,
    <<Cmd("r", <<>>, "H", <<>>)>>,
    <<Cmd("?", <<>>, "", <<>>)>> }

SpecReset == Init /\ [][NextOn(LinesReset, OneLevel)]_vars

RECURSIVE LastArg(_, _, _)
\* the last argument a line gives to command c, dflt when it gives none
LastArg(line, c, dflt) ==
  IF line = <<>> THEN dflt
  ELSE LET h == Head(line)
       IN  LastArg(Tail(line), c, IF h.c = c /\ Len(h.post) >= 1 THEN h.post[1] ELSE dflt)

CapacityKept ==
  /\ cfg.nChannels \in 1..6
  /\ cfg.nSamples \in 2..(1200 \div cfg.nChannels)
  /\ cfg.nSamples * cfg.nChannels <= 1200

\* the request of line is applied, with nSamples lowered when it does not fit
RequestResolved(line) ==
  LET wantN == LastArg(line, "n", cfg.nChannels)
      wantS == LastArg(line, "s", cfg.nSamples)
      nCh == IF wantN < 1 THEN 1 ELSE IF wantN > 6 THEN 6 ELSE wantN
  IN  /\ cfg'.nChannels = nCh
      /\ cfg'.nSamples = IF wantS * nCh > 1200 THEN 1200 \div nCh
                         ELSE IF wantS < 2 THEN 2 ELSE wantS

\* C1: after processInput has handled any command line, nSamples * nChannels
\* <= 1200 with nChannels in 1..6 and nSamples in 2..(1200 / nChannels); a
\* request that does not fit is applied with nSamples lowered, never rejected.
C1_CapacityAfterEveryCommand ==
  [][nLines' = nLines + 1 =>
       /\ CapacityKept'
       /\ \A line \in LinesCfg : cfg' = Parsed(cfg, line).cfg => RequestResolved(line)]_vars

\* six channels were requested with more samples than fit: 200 samples remain
C1_OversizedRequestLowered ==
  /\ nLines >= 1
  /\ cfg.nChannels = 6
  /\ cfg.nSamples = 200

\* ------------------------------------------------------------ capture window
\* every slot of the buffer has been written since the last buffer reset
AllWritten == \A i \in 0..(bufSize - 1) : stamp[i] # -1

\* the ghost stamp of the k-th slot of the window that starts at startPivot
WindowStamp(k) == stamp[(startPivot + k) % bufSize]

\* C2: a completed capture window consists of bufSize samples acquired on
\* consecutive sampling ticks, in chronological order, with no gap during which
\* sampling was suspended by a command, a live print or a previous readout.
\* (Stated for windows whose slots were all written since the last buffer
\* reset; slots never written are the subject of C3.)
C2_WindowConsecutive ==
  acqComplete /\ AllWritten =>
    \A k \in 0..(bufSize - 1) :
      /\ WindowStamp(k) > 0
      /\ WindowStamp(k) = sampNo - (bufSize - 1) + k

\* C3: acqComplete is set exactly when, with trigger and acqStarted, the write
\* pivot after advancing equals startPivot, and then every one of the bufSize
\* slots of the window holds a sample written since the most recent buffer reset.
C3_WindowSlotsWritten ==
  /\ acqComplete <=> (trigger /\ acqStarted /\ curPivot = startPivot)
  /\ acqComplete => AllWritten

\* the completion rule of C3 alone
CompleteExactlyAtStartPivot ==
  acqComplete <=> (trigger /\ acqStarted /\ curPivot = startPivot)

\* C4: in an edge mode with acqDelay = 0 a completed capture has nSamples rows
\* of nChannels values, and the trigChannel value in row preTrigSamp is the
\* sample whose threshold crossing fired the trigger.
C4_TriggerSampleAtRowPreTrig ==
  (serialOut.rows # <<>> /\ serialOut.trig.bySample /\ cfg.acqDelay = 0) =>
    LET rows == serialOut.rows
        it == rows[cfg.preTrigSamp * cfg.nChannels + cfg.trigChannel + 1]
    IN  /\ cfg.trigMode \in {"/", "\\", "x"}
        /\ Len(rows) = cfg.nSamples * cfg.nChannels
        /\ Len(rows) = bufSize
        /\ \A r \in 0..(cfg.nSamples - 1) : \A c \in 0..(cfg.nChannels - 1) :
             /\ rows[r * cfg.nChannels + c + 1].row = r
             /\ rows[r * cfg.nChannels + c + 1].c = c
        /\ it.row = cfg.preTrigSamp
        /\ it.c = cfg.trigChannel
        /\ it.st = serialOut.trig.no
        /\ cfg.trigMode = "/" => it.s >= cfg.trigThresh
        /\ cfg.trigMode = "\\" => it.s <= cfg.trigThresh

\* a capture triggered by a sample was read out with two rows before the trigger row
C4_ReadOutWithPreTrigRows ==
  /\ serialOut.rows # <<>>
  /\ serialOut.trig.bySample
  /\ cfg.acqDelay = 0
  /\ cfg.preTrigSamp = 2

\* C5: when setTrig fires, trigPivot = (curPivot + acqDelay) mod bufSize and
\* startPivot = (trigPivot - trigChannel - preTrigSamp * nChannels) brought into
\* [0, bufSize) by adding bufSize; curPivot=50, acqDelay=3, bufSize=100,
\* trigChannel=1, preTrigSamp=5, nChannels=2 gives startPivot = 42.
C5_SetTrigArithmetic ==
  [][~trigger /\ trigger' =>
       /\ trigPivot' = (curPivot + cfg.acqDelay) % bufSize
       /\ startPivot' \in 0..(bufSize - 1)
       /\ startPivot' =
            (trigPivot' - cfg.trigChannel - cfg.preTrigSamp * cfg.nChannels) % bufSize
       /\ setTrig([trigger |-> FALSE, trigPivot |-> 0, startPivot |-> 0], 50,
                  [cfgDefault EXCEPT !.acqDelay = 3, !.trigChannel = 1,
                                     !.preTrigSamp = 5, !.nChannels = 2],
                  100).startPivot = 42]_vars

\* a trigger has fired whose window start wrapped around the end of the buffer
C5_StartPivotWrapped ==
  /\ nLines >= 1
  /\ trigger
  /\ startPivot > trigPivot

\* the crossing conditions as the claim states them
Crossing(mode, prev, cur, th) ==
  \/ mode \in {"/", "x"} /\ prev < th /\ th <= cur
  \/ mode \in {"\\", "x"} /\ prev > th /\ th >= cur

\* C6: with the trigger idle and the suppression over, a sample stored on
\* trigChannel fires the trigger if and only if it crosses the threshold
\* relative to the previous sample of the channel (rising: prev < threshold <=
\* current; falling: prev > threshold >= current; either: one of the two);
\* samples of other channels never fire it; with threshold 500, rising mode
\* fires on 498, 502 and not on 502, 498, either-edge mode on both.
C6_EdgeDetection ==
  [][sampNo' = sampNo + 1 /\ ~trigger /\ trigIgnoreFirstNSamples = 0 =>
       /\ trigger' <=>
            /\ curChannel = cfg.trigChannel
            /\ Crossing(cfg.trigMode, adcCur[curChannel], adcCur'[curChannel],
                        cfg.trigThresh)
       /\ edgeCrossed("/", 498, 502, 500)
       /\ ~edgeCrossed("/", 502, 498, 500)
       /\ edgeCrossed("x", 498, 502, 500)
       /\ edgeCrossed("x", 502, 498, 500)]_vars

\* a rising-mode trigger fired by a sample equal to the threshold
C6_FiredAtThreshold ==
  /\ trigger
  /\ trigStamp.bySample
  /\ cfg.trigMode = "/"
  /\ adcCur[cfg.trigChannel] = cfg.trigThresh

C8_SuppressionAfterReset ==
  afterReset /\ trigger /\ trigStamp.bySample => trigStamp.cyc >= cfg.preTrigSamp + 1

\* C9: an external event arriving while trigIgnoreFirstNSamples > 0 does not
\* set trigger or compute startPivot.
C9_ExternalEventSuppressed ==
  [][cfg.trigMode = "e" /\ trigIgnoreFirstNSamples > 0 /\ ~trigger =>
       ~trigger' /\ startPivot' = startPivot]_vars

\* C10: after a capture has completed and the main loop has read it out,
\* trigger, acqStarted and acqComplete are false, acqDelayCnt is 0 and sampling
\* is enabled again, so that a following event sequence can fire a new trigger
\* and complete a new capture.
C10_ReadoutRearms ==
  [][acqComplete /\ serialOut'.rows # <<>> =>
       /\ ~trigger'
       /\ ~acqStarted'
       /\ ~acqComplete'
       /\ acqDelayCnt' = 0
       /\ ADIE'
       /\ INT0']_vars

\* a second capture has completed after the first one was read out
C10_CapturedAgain ==
  /\ nCaptures >= 1
  /\ acqComplete

InBlock == pc \in {"pi2", "lv2", "rd2"}

\* the main program is outside these three blocks
OutsideBlocks == pc \in {"top", "live", "acq"}

AcqIdle ==
  /\ ~trigger
  /\ ~acqStarted
  /\ ~acqComplete
  /\ acqDelayCnt = 0

\* C13 as stated: at the moment processInput() returns (its last statement,
\* EIMSK |= _BV(INT0), has run) the acquisition is idle.
C13_IdleWhenProcessInputReturns ==
  [][pc = "pi4" /\ pc' = "live" => AcqIdle']_vars

\* C13, amended: the step that processes a command line leaves the acquisition
\* idle, whatever state the engine was in and whatever the line held, and it
\* stays idle until processInput() re-enables the ADC interrupt.
C13_CommandResetsAcquisition ==
  [][/\ nLines' = nLines + 1 => AcqIdle'
     /\ pc' = "pi3" => AcqIdle']_vars

\* a command has been processed after a trigger had fired and before any
\* capture was read out: the in-flight capture was dropped
C13_InFlightCaptureDropped ==
  /\ pc = "pi3"
  /\ nCaptures = 0
  /\ trigPivot # 0

\* C14: between ISR invocations curChannel is a valid channel and is the
\* channel of the slot curPivot points at, so that slot i only receives
\* samples of channel i mod nChannels, also after a command reset the buffer
\* in the middle of a channel-cycle.
C14_PivotAndChannelAligned ==
  /\ curChannel \in 0..(cfg.nChannels - 1)
  /\ curPivot % cfg.nChannels = curChannel

\* ---------------------------------------------------------- value ranges
\* the bound of lo..hi nearest to x
Nearest(x, lo, hi) == IF x < lo THEN lo ELSE IF x > hi THEN hi ELSE x

RECURSIVE LastT(_, _)
\* the numbers that follow the trigger mode in the last 't' command of line
LastT(line, dflt) ==
  IF line = <<>> THEN dflt
  ELSE LET h == Head(line)
       IN  LastT(Tail(line), IF h.c = "t" THEN h.post ELSE dflt)

TrigSettingsInRange ==
  /\ cfg.trigThresh \in 0..1023
  /\ cfg.acqDelay \in 0..2000
  /\ cfg.preTrigSamp \in 0..(cfg.nSamples - 1)

\* the trigger numbers of line are applied, each replaced by the nearest bound
\* of its range; without a new value preTrigSamp follows the new nSamples
TrigRequestClamped(line) ==
  LET nums == LastT(line, <<>>)
  IN  /\ cfg'.trigThresh = IF Len(nums) >= 1 THEN Nearest(nums[1], 0, 1023)
                                             ELSE cfg.trigThresh
      /\ cfg'.acqDelay = IF Len(nums) >= 3 THEN Nearest(nums[3], 0, 2000)
                                           ELSE cfg.acqDelay
      /\ cfg'.preTrigSamp = Nearest(IF Len(nums) >= 2 THEN nums[2] ELSE cfg.preTrigSamp,
                                    0, cfg'.nSamples - 1)

\* C15: after processInput trigThresh is in 0..1023, acqDelay in 0..2000 and
\* preTrigSamp in 0..nSamples-1, out-of-range arguments being replaced by the
\* nearest bound; preTrigSamp is lowered with nSamples when a later command
\* lowers nSamples or raises nChannels.
C15_TrigSettingsClamped ==
  [][nLines' = nLines + 1 =>
       /\ TrigSettingsInRange'
       /\ \A line \in LinesTrig : cfg' = Parsed(cfg, line).cfg => TrigRequestClamped(line)]_vars

\* preTrigSamp 250 of 300 samples was lowered to 199 when six channels were
\* requested and nSamples fell to 200
C15_PreTrigLoweredWithNSamples ==
  /\ nLines = 2
  /\ cfg.nChannels = 6
  /\ cfg.nSamples = 200
  /\ cfg.preTrigSamp = 199
  /\ cfg.trigThresh = 500

\* C17: after every configuration update trigChannel is one of the sampled
\* channels 0..nChannels-1.
C17_TrigChannelSampled ==
  cfg.trigChannel \in 0..(cfg.nChannels - 1)

\* line holds a 'p' command
RequestsPeriod(line) == \E k \in 1..Len(line) : line[k].c = "p"

C18_RoundTrip ==
  [][tick' = tick + 1 => fromBufOf(sampBuf', sampBufL', curPivot) = adcCur[0]]_vars

\* 1021 was stored into slot 6, whose low-bits byte held 3 for every slot
C18_StoredAmongFullNeighbours ==
  /\ tick = 1
  /\ curPivot = 6
  /\ adcCur[0] = 1021
  /\ fromBuf(6) = 1021
  /\ fromBuf(7) % 4 = 3
  /\ fromBuf(5) % 4 = 3

\* ---------------------------------------------------------- circular order
\* the step stores a sample
Stores == sampNo' = sampNo + 1

\* the samples stored since sampling was last resumed are the newest ones and
\* lie behind curPivot, the newest nearest to it; every other slot is older
NewestBehindPivot ==
  LET n == IF sampNo < bufSize THEN sampNo ELSE bufSize
  IN  /\ \A k \in 1..n : stamp[(curPivot + bufSize - k) % bufSize] = sampNo - k + 1
      /\ \A k \in (n + 1)..bufSize : stamp[(curPivot + bufSize - k) % bufSize] <= 0

\* C19: the buffer is circular. A store writes the slot at curPivot and no
\* other slot and moves curPivot one slot on, wrapping at bufSize; nothing but
\* a store or a buffer reset changes the buffer or curPivot. So once bufSize
\* samples are stored the buffer holds the bufSize newest ones, the oldest at
\* curPivot and the j-th oldest at (curPivot + j) mod bufSize.
C19_CircularBuffer ==
  [][/\ NewestBehindPivot'
     /\ sampNo' >= bufSize' =>
          \A j \in 0..(bufSize' - 1) :
             stamp'[(curPivot' + j) % bufSize'] = sampNo' - bufSize' + 1 + j
     /\ Stores =>
          /\ curPivot' = (curPivot + 1) % bufSize
          /\ bufSize' = bufSize
          /\ \A i \in 0..(bufSize - 1) : i # curPivot => fromBuf(i)' = fromBuf(i)
     /\ ~Stores /\ <<sampBuf, sampBufL, curPivot>> # <<sampBuf', sampBufL', curPivot'>> =>
          /\ nLines' = nLines + 1
          /\ curPivot' = 0
          /\ \A i \in 0..(bufSize' - 1) : fromBuf(i)' = 0 /\ stamp'[i] = -1]_vars

\* more samples than slots were stored without a suspension: the pivot has
\* wrapped and points at the oldest of them
C19_WrappedOntoOldest ==
  /\ sampNo > bufSize
  /\ stamp[curPivot] = sampNo - bufSize + 1
  /\ stamp[curPivot] > 1

\* ----------------------------------------------------------------- throttle
\* the step serves a conversion-complete interrupt
Converts == tick' = tick + 1

\* C20: conversions are skipped only while curChannel = 0, sampPeriod -
\* nChannels of them, each counted in skipCnt; then the channel-0 sample is
\* stored and skipCnt restarts, and the following interrupts store the other
\* channels without skipping. While sampling stays enabled, a channel-0 sample
\* that follows a stored sample is stored after exactly sampPeriod - nChannels
\* skipped conversions, so that sampPeriod interrupts lie between two
\* consecutive channel-0 samples.
C20_Throttle ==
  [][/\ curChannel' # 0 => skipCnt' = 0
     /\ Stores => Converts
     /\ Converts /\ ~Stores =>
          /\ curChannel = 0
          /\ skipCnt < cfg.sampPeriod - cfg.nChannels
          /\ skipCnt' = skipCnt + 1
          /\ curChannel' = 0
     /\ Stores =>
          /\ curChannel' = (curChannel + 1) % cfg.nChannels
          /\ skipCnt' = 0
          /\ curChannel = 0 => skipCnt >= cfg.sampPeriod - cfg.nChannels
          /\ curChannel = 0 /\ sampNo >= 1 => skipCnt = cfg.sampPeriod - cfg.nChannels]_vars

\* two channels with period 3: after a skipped conversion and a group of two,
\* one more conversion was skipped and the next channel-0 sample was stored
C20_SecondGroupAfterOneSkip ==
  /\ cfg.nChannels = 2
  /\ cfg.sampPeriod = 3
  /\ sampNo = 3
  /\ curChannel = 1
  /\ tick = 5

\* ------------------------------------------------------------ delay counting
\* the step stores a sample of the trigger channel
StoresTrigChannel == Stores /\ curChannel = cfg.trigChannel

\* C21: once the trigger has fired, every stored sample of trigChannel adds one
\* to acqDelayCnt until it equals acqDelay; acqStarted becomes true only on a
\* trigChannel sample that finds acqDelayCnt = acqDelay; acqComplete is never
\* set before acqStarted; and 0 <= acqDelayCnt <= acqDelay.
C21_DelayCounting ==
  [][/\ acqDelayCnt' \in 0..cfg'.acqDelay
     /\ acqComplete' => acqStarted'
     /\ ~acqStarted /\ acqStarted' =>
          StoresTrigChannel /\ trigger' /\ acqDelayCnt = cfg.acqDelay
     /\ StoresTrigChannel /\ trigger /\ acqDelayCnt < cfg.acqDelay =>
          acqDelayCnt' = acqDelayCnt + 1]_vars

C23_TimestampsFitLong ==
  \A k \in 1..Len(serialOut.rows) :
     LET item == serialOut.rows[k]
     IN  /\ item.row + 1 - cfg.preTrigSamp + cfg.acqDelay <= LONG_MAX \div cfg.sampPeriod
         /\ item.t = (item.row - cfg.preTrigSamp + cfg.acqDelay) * cfg.sampPeriod

\* ------------------------------------------------------------- buffer reset
\* the buffer is as resetBuf leaves it
BufferCleared ==
  /\ bufSize = cfg.nChannels * cfg.nSamples
  /\ curPivot = 0
  /\ \A i \in 0..(bufSize - 1) : fromBuf(i) = 0

BufferKept == UNCHANGED <<sampBuf, sampBufL, curPivot, bufSize>>

SizeChanged == cfg'.nChannels # cfg.nChannels \/ cfg'.nSamples # cfg.nSamples

RECURSIVE TouchesChannels(_, _)
\* some 'n' command of line asks for a channel count other than the one in
\* force when it is read, nCh being the count in force at the start of line
TouchesChannels(line, nCh) ==
  IF line = <<>> THEN FALSE
  ELSE LET h == Head(line)
           isN == h.c = "n" /\ Len(h.post) >= 1
           v == IF isN THEN Nearest(h.post[1], 1, 6) ELSE nCh
       IN  v # nCh \/ TouchesChannels(Tail(line), v)

ReadsOut == serialOut.rows = <<>> /\ serialOut'.rows # <<>>

\* C25: the buffer is cleared with the pivot at slot 0, and the trigger state
\* is reset, by a command that changes nChannels, nSamples or the ADC
\* resolution and by every completed readout (as they are at startup).
C25_BufferAndTriggerReset ==
  [][/\ nLines' = nLines + 1 /\ (SizeChanged \/ cfg'.adcRes # cfg.adcRes) =>
          BufferCleared' /\ AcqIdle'
     /\ ReadsOut => BufferCleared' /\ AcqIdle']_vars

\* the sample group the live mode prints
LiveGroup == [c \in 1..cfg.nChannels |-> adcCur[c - 1]]

\* C26: in live mode trigger, acqStarted and acqComplete stay false whatever
\* samples and external events arrive; sampAvail is set by the step that
\* stores the sample of channel nChannels-1 and by no other, and it is cleared
\* only by the main loop's step that prints the group.
C26_LiveModeUsesNoTrigger ==
  [][cfg.trigMode = "l" /\ cfg'.trigMode = "l" =>
       /\ ~trigger' /\ ~acqStarted' /\ ~acqComplete'
       /\ Stores /\ curChannel = cfg.nChannels - 1 => sampAvail'
       /\ ~sampAvail /\ sampAvail' => Stores /\ curChannel = cfg.nChannels - 1
       /\ sampAvail /\ ~sampAvail' => pc = "lv2" /\ serialOut'.live = LiveGroup]_vars

\* a group of 498 was printed and the next sample, 500, reached the threshold
\* from below with the external interrupt enabled: no trigger, a new group
C26_NextGroupAfterPrint ==
  /\ cfg.trigMode = "l" /\ cfg.trigThresh = 500
  /\ serialOut.live = <<498>> /\ adcCur[0] = 500
  /\ sampAvail /\ INT0 /\ ~trigger

\* the offset setTrig computes before it is brought into the buffer
RawStart == trigPivot - cfg.trigChannel - cfg.preTrigSamp * cfg.nChannels

\* C27: bufSize is in 2..1200 and curPivot in 0..bufSize-1; while trigger is
\* true trigPivot and startPivot are in 0..bufSize-1, also when the raw offset
\* is below -bufSize; the slots toBuf writes (curPivot) and fromBuf reads
\* (startPivot and its successors modulo bufSize) are inside the arrays.
C27_IndexRange ==
  /\ bufSize \in 2..maxBufSize
  /\ curPivot \in 0..(bufSize - 1)
  /\ trigger => /\ trigPivot \in 0..(bufSize - 1)
                /\ startPivot \in 0..(bufSize - 1)
                /\ (startPivot - RawStart) % bufSize = 0

\* trigger channel 5 with a buffer of two slots: the raw offset is below
\* -bufSize and startPivot is a slot of the buffer
C27_OffsetBelowMinusBufSize ==
  /\ trigger /\ cfg.trigChannel = 5 /\ bufSize = 2
  /\ RawStart < -bufSize
  /\ startPivot \in 0..1

\* C28: after a capture has been read out and sampling has resumed, no
\* threshold crossing sets trigger during the first preTrigSamp + 1 channel-
\* cycles, and no slot of the next signal-triggered window holds a sample
\* stored before the readout.
C28_FreshWindowAfterReadout ==
  /\ nCaptures >= 1 /\ ~afterReset /\ trigger /\ trigStamp.bySample =>
       trigStamp.cyc >= cfg.preTrigSamp + 1
  /\ nCaptures >= 1 /\ acqComplete /\ trigStamp.bySample =>
       \A k \in 0..(bufSize - 1) : WindowStamp(k) # 0

\* the plain array of 10-bit values the two byte arrays stand for
PlainArray == [j \in 0..(bufSize - 1) |-> fromBuf(j)]

\* C29: the packed storage behaves as a plain array of 10-bit values: toBuf(v, i)
\* sets element i to v and leaves every other element as it was, also those
\* sharing i's low-bits byte, and clearBuf sets every element to 0; so after
\* any sequence of the two fromBuf(j) is the plain array's element j.
C29_PackedAsPlainArray ==
  [][/\ pc' = "toBuf" /\ tick' = tick + 1 =>
          PlainArray' = [PlainArray EXCEPT ![curPivot'] = adcCur'[0]]
     /\ pc' = "clearBuf" /\ tick' = tick + 1 =>
          PlainArray' = [j \in 0..(bufSize - 1) |-> 0]]_vars

\* 1022 was stored into slot 4 and then 513 into slot 5, which shares its
\* low-bits byte: both read back, and slot 6 still reads what it held at first
C29_TwoStoresInOneByte ==
  /\ tick = 2 /\ pc = "toBuf" /\ curPivot = 5
  /\ fromBuf(4) = 1022 /\ fromBuf(5) = 513 /\ fromBuf(6) = 1023

\* C30: for every configuration set by a command line, once trigger is true
\* and conversions keep arriving, acqComplete becomes true unless a command
\* re-arms the acquisition first.
C30_CaptureCompletes == (trigger /\ nLines >= 1) ~> (acqComplete \/ ~trigger)

\* ------------------------------------------------------------- readout loop
\* the values printed so far are those of the slots from startPivot on, in
\* circular order, the channel counter running 0..nChannels-1 in each row
PrintedInCircularOrder ==
  \A k \in 1..Len(serialOut.rows) :
     /\ serialOut.rows[k].i = (startPivot + k - 1) % bufSize
     /\ serialOut.rows[k].c = (k - 1) % cfg.nChannels
     /\ serialOut.rows[k].row = (k - 1) \div cfg.nChannels

\* C31: the readout loop ends after bufSize passes: it visits every slot once,
\* in circular order from startPivot, and prints nSamples rows of nChannels
\* values with the channel counter running 0..nChannels-1 in each row.
C31_ReadoutVisitsEachSlotOnce ==
  [][/\ pc' = "rd2" => PrintedInCircularOrder' /\ Len(serialOut'.rows) <= bufSize
     /\ pc = "rd2" /\ pc' = "rd3" =>
          /\ Len(serialOut.rows) = bufSize
          /\ Len(serialOut.rows) = cfg.nSamples * cfg.nChannels
          /\ {serialOut.rows[k].i : k \in 1..bufSize} = 0..(bufSize - 1)]_vars

\* a window of two rows of two channels that starts at slot 3 has been read
\* out through the wrap of the buffer
C31_ReadOutThroughWrap ==
  /\ pc = "rd2" /\ readoutDone
  /\ cfg.nChannels = 2 /\ bufSize = 4 /\ startPivot = 3
  /\ Len(serialOut.rows) = 4
  /\ serialOut.rows[4].i = 2 /\ serialOut.rows[4].row = 1 /\ serialOut.rows[4].c = 1

\* -------------------------------------------------------- channel attribution
\* The samples are stored in consecutive slots from consecutive channels, and
\* bufSize is a multiple of nChannels: the sample in slot i was converted from
\* the channel that is as far behind curChannel as i is behind curPivot.
ChannelOf(i) == (curChannel + i + bufSize - curPivot) % cfg.nChannels

\* C32: whenever acqComplete is set the slot at startPivot holds a channel-0
\* sample, so that the readout, whose channel counter starts at 0 there,
\* labels every value with the channel it was converted from.
C32_WindowStartsAtChannel0 ==
  acqComplete => ChannelOf(startPivot) = 0

\* ------------------------------------------------------------ window anchoring
\* C33: in a capture fired by an edge on trigChannel, the trigChannel value of
\* window row r was acquired (r - preTrigSamp + acqDelay) sample periods, of
\* nChannels conversions each, after the firing sample, and that is the time
\* printed in front of the row (stated for the values stored since the resume,
\* whose ghost stamps count the conversions).
C33_WindowAnchoredAtDelay ==
  (serialOut.rows # <<>> /\ serialOut.trig.bySample) =>
    \A r \in 0..(cfg.nSamples - 1) :
      LET it == serialOut.rows[r * cfg.nChannels + cfg.trigChannel + 1]
          periods == r - cfg.preTrigSamp + cfg.acqDelay
      IN  it.st > 0 =>
            /\ it.st - serialOut.trig.no = periods * cfg.nChannels
            /\ it.t = periods * cfg.sampPeriod

\* ------------------------------------------------------------ completed captures
\* C34: a capture that has reached acqComplete is printed in full by the step
\* that clears its flags; a command line that arrives before the readout does
\* not discard it.
C34_CompletedCapturePrinted ==
  [][acqComplete /\ ~acqComplete' => Len(serialOut'.rows) = bufSize]_vars

\* ----------------------------------------------------------- live snapshots
\* ISR(ADC_vect) writes adcCur[curChannel] and then advances curChannel, so
\* while curChannel = k > 0 the values adcCur[0..k-1] belong to the channel
\* cycle in progress and adcCur[k..] to an earlier one
OneCycleInAdcCur == curChannel = 0

\* C35: the values of a live-mode output line were all acquired in one and the
\* same channel cycle, however the conversions fall between the setting of
\* sampAvail and the main loop's disableISRs().
C35_LiveLineFromOneCycle ==
  (pc = "lv2" /\ cfg.nChannels = 2) => OneCycleInAdcCur

\* ------------------------------------------------------------ size in use
\* C36: whenever sampling is enabled, bufSize = cfg.nChannels * cfg.nSamples,
\* whatever 'n' and 's' commands the lines held, several on one line and an
\* nChannels change that lowers nSamples through its limit included.
C36_BufSizeMatchesCfg ==
  ADIE => bufSize = cfg.nChannels * cfg.nSamples

\* 201 samples had been set; six channels were then asked for (or the other way
\* round) and the 200 samples that fit remain, in a buffer of 1200 slots
C36_SamplesLoweredByChannels ==
  /\ ADIE
  /\ nLines = 2
  /\ cfg.nChannels = 6
  /\ cfg.nSamples = 200
  /\ bufSize = 1200

\* ----------------------------------------------------------- trigger sources
\* C37: in External mode no stored sample sets trigger, whatever it crosses, and
\* in the rising, falling and either-edge modes no INT0 event sets trigger:
\* trigger rises in a conversion step only in an edge mode and in any other
\* step only in External mode.
C37_SourcesExclusive ==
  [][~trigger /\ trigger' =>
       IF Converts THEN cfg.trigMode \in {"/", "\\", "x"}
                   ELSE cfg.trigMode = "e"]_vars

\* External mode, trigger blanking over: 498 and then 500 were stored on the
\* trigger channel, a rising crossing of the threshold 500, and trigger is
\* still false
C37_CrossingInExternalMode ==
  /\ cfg.trigMode = "e"
  /\ cfg.trigThresh = 500
  /\ nLines >= 1
  /\ bufSize = 2
  /\ sampNo = 2
  /\ curPivot = 0
  /\ trigIgnoreFirstNSamples = 0
  /\ fromBufOf(sampBuf, sampBufL, 0) = 498
  /\ fromBufOf(sampBuf, sampBufL, 1) = 500
  /\ ~trigger

=============================================================================
